---- MODULE Spec2Model ----
(***************************************************************************)
(* Model of src/main.py: a relay that polls a channel on a clock, extracts *)
(* a signal text from every new message and posts it to one or two         *)
(* webhooks, keeping the highest message id seen in state.json.            *)
(*                                                                         *)
(* Text is a sequence of tokens.  Each token stands for a piece of a       *)
(* Python string:                                                          *)
(*    "Timeframe"  the word Timeframe      "timeframe"  the same, lowercase *)
(*    ":"          a colon                 "SP"         a space            *)
(*    "NL"         a newline "\n"          "A", "B"     the characters 1, 5 *)
(* so <<"Timeframe", ":", "SP", "A">> is the string "Timeframe: 1".        *)
(* The regular expressions of the source are applied token by token; the   *)
(* keyword "Timeframe:" can only arise from the word followed by a colon.  *)
(*                                                                         *)
(* A message id is a Python str, modelled as a sequence of character       *)
(* codes: 0..9 are the digits 0..9, NonDigit is the letter x (a character  *)
(* that int() accepts nowhere in a str).                                   *)
(***************************************************************************)
EXTENDS Integers, Sequences, FiniteSets, TLC

\* ------------------------------------------------------------------------
\* Bounds
\* ------------------------------------------------------------------------
MaxRaw == 3
MaxChunks == 3
MaxId == 11
MaxBatch == 2
MaxNow == 700
MaxBase == 4

\* ------------------------------------------------------------------------
\* Python str helpers on token sequences
\* ------------------------------------------------------------------------
\* Python's None where a str is expected (kept apart from the empty str)
NoneT == <<"None">>

\* truthiness of an optional str: None and "" are falsy
Truthy(x) == x # NoneT /\ x # <<>>

\* \s of the re module
IsSpace(ch) == ch \in {"SP", "NL"}

\* [A-Za-z0-9] of the re module
IsAlnum(ch) == ch \in {"A", "B", "Timeframe", "timeframe"}

\* the word of the keyword "Timeframe:", matched with re.I
IsKw(ch) == ch \in {"Timeframe", "timeframe"}

RECURSIVE LStrip(_)
LStrip(t) == IF t # <<>> /\ IsSpace(Head(t)) THEN LStrip(Tail(t)) ELSE t

RECURSIVE RStrip(_)
RStrip(t) ==
    IF t # <<>> /\ IsSpace(t[Len(t)]) THEN RStrip(SubSeq(t, 1, Len(t) - 1)) ELSE t

Strip(t) == RStrip(LStrip(t))

\* first index >= i of t that is not whitespace (Len(t)+1 when none): \s*
RECURSIVE SkipWs(_, _)
SkipWs(t, i) == IF i <= Len(t) /\ IsSpace(t[i]) THEN SkipWs(t, i + 1) ELSE i

\* first index >= i of t that is not alphanumeric: [A-Za-z0-9]* (greedy)
RECURSIVE SkipAlnum(_, _)
SkipAlnum(t, i) == IF i <= Len(t) /\ IsAlnum(t[i]) THEN SkipAlnum(t, i + 1) ELSE i

\* "Timeframe:" (any case) starts at index p
KwAt(t, p) == p >= 1 /\ p + 1 <= Len(t) /\ IsKw(t[p]) /\ t[p + 1] = ":"

\* last index of a match of Timeframe:\s*([A-Za-z0-9]+) starting at p, 0 when
\* the pattern does not match at p
MatchEnd(t, p) ==
    IF ~KwAt(t, p) THEN 0
    ELSE LET i == SkipWs(t, p + 2)
             j == SkipAlnum(t, i)
         IN  IF j > i THEN j - 1 ELSE 0

MinOf(S) == CHOOSE x \in S : \A y \in S : x <= y

\* re.search(r"Timeframe:\s*([A-Za-z0-9]+)", t, re.I): group(0).strip() of
\* the leftmost match, None without a match
_extract_timeframe_from_text(t) ==
    LET P == {p \in 1..Len(t) : MatchEnd(t, p) > 0}
    IN  IF P = {} THEN NoneT
        ELSE LET p == MinOf(P) IN Strip(SubSeq(t, p, MatchEnd(t, p)))

\* index where re.split(r"\n\s*\n", u) first cuts u, 0 when it does not
SplitAt(u) ==
    LET P == {i \in 1..Len(u) :
                 /\ u[i] = "NL"
                 /\ \E j \in (i + 1)..Len(u) :
                       /\ u[j] = "NL"
                       /\ \A k \in (i + 1)..(j - 1) : IsSpace(u[k])}
    IN  IF P = {} THEN 0 ELSE MinOf(P)

\* parts[0].strip() of re.split(r"\n\s*\n", text.strip())
_first_block(text) ==
    LET u == Strip(text)
        i == SplitAt(u)
    IN  IF i = 0 THEN Strip(u) ELSE Strip(SubSeq(u, 1, i - 1))

\* Timeframe:\s*[A-Za-z0-9]+\s*$ matches from index q to the end of t
TailMatch(t, q) ==
    /\ KwAt(t, q)
    /\ LET i == SkipWs(t, q + 2)
           j == SkipAlnum(t, i)
       IN  j > i /\ SkipWs(t, j) > Len(t)

\* re.sub(r"\n?Timeframe:\s*[A-Za-z0-9]+\s*$", "", t, flags=re.I): the
\* leftmost match runs to the end of t and is cut off
SubTrailingTF(t) ==
    LET P == {p \in 1..Len(t) :
                 \/ t[p] = "NL" /\ TailMatch(t, p + 1)
                 \/ TailMatch(t, p)}
    IN  IF P = {} THEN t ELSE SubSeq(t, 1, MinOf(P) - 1)

\* ------------------------------------------------------------------------
\* Text Extractor
\* ------------------------------------------------------------------------
\* variant: the Timeframe line is looked up in the first block only
TfFromContent_FirstBlockOnly(content) ==
    IF content # <<>> THEN _extract_timeframe_from_text(_first_block(content)) ELSE NoneT

\* line 113: the Timeframe line of the full content, when there is content
TfFromContent(content) ==
    IF content # <<>> THEN _extract_timeframe_from_text(content) ELSE NoneT

\* lines 99-102: the Timeframe line of the first embed's footer text
FooterTfLine(footer_txt) ==
    IF footer_txt # <<>> /\ Truthy(_extract_timeframe_from_text(footer_txt))
    THEN _extract_timeframe_from_text(footer_txt)
    ELSE NoneT

\* variant: the content is preferred and the description is the fallback
BaseText_ContentFirst(desc, content) ==
    _first_block(IF content # <<>> THEN content ELSE desc)

\* lines 105-106: description of the first embed when non-empty, else content
BaseText(desc, content) == _first_block(IF desc # <<>> THEN desc ELSE content)

\* variant: the footer's Timeframe line is preferred to the content's
FinalText_FooterFirst(base_text, content, footer_tf_line) ==
    LET tf_inline == _extract_timeframe_from_text(base_text)
        tf_from_content == TfFromContent(content)
        tf_line == IF Truthy(footer_tf_line) THEN footer_tf_line ELSE tf_from_content
    IN  IF ~Truthy(tf_inline)
        THEN IF Truthy(tf_line)
             THEN RStrip(base_text) \o <<"NL">> \o tf_line
             ELSE base_text
        ELSE RStrip(SubTrailingTF(base_text)) \o <<"NL">> \o tf_inline

\* lines 112-125: where the Timeframe line goes
FinalText(base_text, content, footer_tf_line) ==
    LET tf_inline == _extract_timeframe_from_text(base_text)
        tf_from_content == TfFromContent(content)
        tf_line == IF Truthy(tf_from_content) THEN tf_from_content ELSE footer_tf_line
    IN  IF ~Truthy(tf_inline)
        THEN IF Truthy(tf_line)
             THEN RStrip(base_text) \o <<"NL">> \o tf_line
             ELSE base_text
        ELSE RStrip(SubTrailingTF(base_text)) \o <<"NL">> \o tf_inline

\* lines 83-106: the variable base_text of build_signal_text_from_msg
base_text_of(m) ==
    BaseText(IF m.embeds # <<>> THEN Strip(m.embeds[1].description) ELSE <<>>,
             Strip(m.content))

\* A message is [id, ctype, content, embeds]; an absent or null content,
\* description or footer text is the empty str, as `x or ""` makes it.
\* An embed is [description, footer], footer being footer.text.
build_signal_text_from_msg(m) ==
    LET content == Strip(m.content)
        hasEmbed == m.embeds # <<>>
        desc == IF hasEmbed THEN Strip(m.embeds[1].description) ELSE <<>>
        footer_txt == IF hasEmbed THEN Strip(m.embeds[1].footer) ELSE <<>>
        footer_tf_line == IF hasEmbed THEN FooterTfLine(footer_txt) ELSE NoneT
        base_text == base_text_of(m)
    IN  Strip(FinalText(base_text, content, footer_tf_line))

\* ------------------------------------------------------------------------
\* Inputs of the extractor
\* ------------------------------------------------------------------------
Alphabet == {"Timeframe", "timeframe", ":", "SP", "NL", "A", "B"}

SeqsUpTo(S, n) == UNION {[1..k -> S] : k \in 0..n}

RECURSIVE Flatten(_)
Flatten(ss) == IF ss = <<>> THEN <<>> ELSE Head(ss) \o Flatten(Tail(ss))

TfA == <<"Timeframe", ":", "SP", "A">>
TfB == <<"timeframe", ":", "B">>
Chunks == {<<"A">>, <<"B", "SP", "B">>, <<"NL">>, <<"NL", "NL">>, TfA, TfB}

RawTexts == SeqsUpTo(Alphabet, MaxRaw)
ChunkTexts == {Flatten(cs) : cs \in SeqsUpTo(Chunks, MaxChunks)}

\* "BUY EURUSD\nEntry 1.10\n\nTimeframe: 15m\n\nGood luck" with every word
\* of the three text lines written as one alphanumeric character
ExampleContent ==
    <<"A", "SP", "B", "NL", "A", "SP", "B", "NL", "NL",
      "Timeframe", ":", "SP", "A", "B", "NL", "NL", "A", "SP", "B">>
ExampleFirstBlock == <<"A", "SP", "B", "NL", "A", "SP", "B">>

SmallContents == {<<>>, <<"A">>, TfB, <<"A", "NL", "NL">> \o TfB}
Footers == {<<>>, <<"B">>, TfB, <<"B", "SP">> \o TfA \o <<"SP", "B">>}

IdOne == <<1>>

\* embeds that follow the first one
LaterEmbeds ==
    {[description |-> <<"B", "NL">> \o TfA, footer |-> TfB],
     [description |-> <<"B">>, footer |-> <<>>]}

TextMsgs ==
    {[id |-> IdOne, ctype |-> "str", content |-> c, embeds |-> <<>>] :
        c \in RawTexts \cup ChunkTexts \cup {ExampleContent}}
    \cup
    {[id |-> IdOne, ctype |-> "str", content |-> c,
      embeds |-> <<[description |-> d, footer |-> f]>>] :
        c \in SmallContents, d \in ChunkTexts, f \in Footers}
    \cup
    {[id |-> IdOne, ctype |-> "str", content |-> c,
      embeds |-> <<[description |-> d, footer |-> f], e2>>] :
        c \in SmallContents, d \in ChunkTexts, f \in Footers, e2 \in LaterEmbeds}

\* ------------------------------------------------------------------------
\* Message ids, state.json and the in-memory state
\* ------------------------------------------------------------------------
\* the letter "x": a character of an id on which int() raises wherever it
\* stands (no digit of any script, no sign, no whitespace, no underscore)
NonDigit == 10

\* str(n) for n >= 0
RECURSIVE PyStr(_)
PyStr(n) == IF n < 10 THEN <<n>> ELSE PyStr(n \div 10) \o <<n % 10>>

\* int(s) succeeds, for a str s of the digits 0..9 and the letter x
IsNumeric(s) == s # <<>> /\ \A i \in 1..Len(s) : s[i] \in 0..9

\* int(s) for a str of digits
RECURSIVE PyInt(_)
PyInt(s) == IF s = <<>> THEN 0 ELSE 10 * PyInt(SubSeq(s, 1, Len(s) - 1)) + s[Len(s)]

\* an optional str: None, or the str s
NoneId == [some |-> FALSE, s |-> <<>>]
SomeId(s) == [some |-> TRUE, s |-> s]

\* the ids of the channel: "9", "10", "11", ... (one and two digits)
Ids == {PyStr(n) : n \in 9..MaxId}

\* json.loads value of the state file: a dict (with or without the key
\* last_id) or another JSON value
DefaultState == [k |-> "dict", has |-> TRUE, last_id |-> NoneId]

\* contents of state.json
FileMissing == [k |-> "missing", has |-> FALSE, last_id |-> NoneId]
FileNotJson == [k |-> "notjson", has |-> FALSE, last_id |-> NoneId]
FileNonObject == [k |-> "nonobject", has |-> FALSE, last_id |-> NoneId]
FileObject(has, lid) == [k |-> "object", has |-> has, last_id |-> lid]

load_state(f) ==
    IF f.k = "missing" THEN DefaultState
    ELSE IF f.k = "notjson" THEN DefaultState
    ELSE IF f.k = "nonobject" THEN [k |-> "other", has |-> FALSE, last_id |-> NoneId]
    ELSE [k |-> "dict", has |-> f.has, last_id |-> f.last_id]

\* state.get("last_id")
StateGet(st) == IF st.has THEN st.last_id ELSE NoneId

\* variant: a save that returns without having written anything
save_state_NoWrite(st, f, outcome) == f

\* what write_text(json.dumps(state)) leaves in the file: the dumped dict
\* when it returns, the old file when open() fails, a truncated file when
\* the write fails after open() has truncated it
save_state(st, f, outcome) ==
    IF outcome = "ok" THEN FileObject(st.has, st.last_id)
    ELSE IF outcome = "open_fail" THEN f
    ELSE FileNotJson

SaveOutcomes == {"ok", "open_fail", "write_fail"}

\* ------------------------------------------------------------------------
\* Messages of the channel
\* ------------------------------------------------------------------------
MsgKinds == {"text", "empty", "bad"}

\* "text": content "1"; "empty": content " "; "bad": a content that is not
\* a str (a JSON number), on which line 83 raises AttributeError
Msg(id, kind) ==
    [id |-> id,
     ctype |-> IF kind = "bad" THEN "int" ELSE "str",
     content |-> IF kind = "text" THEN <<"A">> ELSE IF kind = "empty" THEN <<"SP">> ELSE <<>>,
     embeds |-> <<>>]

Messages == {Msg(id, kd) : id \in Ids, kd \in MsgKinds}

\* the batch of the dedup example, ids "98", "100", "101", "103" around a
\* last_id of "100", brought down to "8", "9", "10", "11" around "9"
ExampleBatch ==
    <<Msg(PyStr(8), "text"), Msg(PyStr(9), "text"),
      Msg(PyStr(10), "text"), Msg(PyStr(11), "text")>>

\* the same messages as the channel lists them, the newest first
ExampleNewestFirst ==
    <<Msg(PyStr(11), "text"), Msg(PyStr(10), "text"),
      Msg(PyStr(9), "text"), Msg(PyStr(8), "text")>>

\* the JSON lists a GET can return: up to MaxBatch messages with distinct
\* ids, in any order, and the batch of the example in both orders
Batches ==
    {b \in SeqsUpTo(Messages, MaxBatch) :
        \A i, j \in 1..Len(b) : i # j => b[i].id # b[j].id}
    \cup {ExampleBatch, ExampleNewestFirst}

RECURSIVE Insert_Lex(_, _)
RECURSIVE Insert(_, _)
\* variant: the key is the id string itself, compared as Python compares
\* strings (character by character, a proper prefix first)
Insert_Lex(sorted, m) ==
    LET a == m.id
        b == sorted[Len(sorted)].id
        less == \E k \in 1..(Len(a) + 1) :
                    /\ \A j \in 1..(k - 1) : j <= Len(b) /\ a[j] = b[j]
                    /\ k <= Len(b)
                    /\ (k <= Len(a) => a[k] < b[k])
    IN  IF sorted = <<>> THEN <<m>>
        ELSE IF less
             THEN Insert_Lex(SubSeq(sorted, 1, Len(sorted) - 1), m) \o <<sorted[Len(sorted)]>>
             ELSE sorted \o <<m>>

\* sorted(data, key=lambda m: int(m["id"])): stable insertion by int(id)
Insert(sorted, m) ==
    IF sorted = <<>> THEN <<m>>
    ELSE IF PyInt(m.id) < PyInt(sorted[Len(sorted)].id)
         THEN Insert(SubSeq(sorted, 1, Len(sorted) - 1), m) \o <<sorted[Len(sorted)]>>
         ELSE sorted \o <<m>>

RECURSIVE data_sorted(_)
data_sorted(data) ==
    IF data = <<>> THEN <<>>
    ELSE Insert(data_sorted(SubSeq(data, 1, Len(data) - 1)), data[Len(data)])

\* variant: the comparison of line 183 written with >=
IsNew_Geq(mid, last) == ~last.some \/ PyInt(mid) >= PyInt(last.s)

\* variant: line 183 without the comparison, every fetched message is new
IsNew_Always(mid, last) == TRUE

\* line 183: last_id is None or int(mid) > int(last_id)
IsNew(mid, last) == ~last.some \/ PyInt(mid) > PyInt(last.s)

\* line 183 raises ValueError: int(last_id) of a str that is not a number
FilterRaises(ms, last) == ms # <<>> /\ last.some /\ ~IsNumeric(last.s)

\* lines 180-184
RECURSIVE NewMsgs(_, _)
NewMsgs(ms, last) ==
    IF ms = <<>> THEN <<>>
    ELSE (IF IsNew(Head(ms).id, last) THEN <<Head(ms)>> ELSE <<>>) \o NewMsgs(Tail(ms), last)

\* line 83: (msg.get("content") or "").strip() on a content that is no str
Raises(m) == m.ctype # "str"

\* variant: the empty text is posted like any other
ShouldSkip_Never(text) == FALSE

\* line 135: if not text
ShouldSkip(text) == text = <<>>

\* variant: the try block around the whole loop, the first failed POST ends it
PostsFor_StopAtFailure(m, text, urls, oks) ==
    LET F == {i \in 1..Len(urls) : ~oks[i]}
        n == IF F = {} THEN Len(urls) ELSE MinOf(F)
    IN  [i \in 1..n |-> [id |-> m.id, url |-> urls[i], ok |-> oks[i], text |-> text]]

\* lines 144-151: one POST per url, oks[i] telling whether the i-th one
\* succeeded; a failure is caught inside the loop over the urls
PostsFor(m, text, urls, oks) ==
    [i \in 1..Len(urls) |->
        [id |-> m.id, url |-> urls[i], ok |-> oks[i], text |-> text]]

\* ------------------------------------------------------------------------
\* Responses of the channel API
\* ------------------------------------------------------------------------
PollBaseDefault == 300
PollOffsetDefault == 5
DefaultRetry == 5
RetryBuffer == 1
RetryValues == {2, 7}

\* body of a 429: unreadable, readable without retry_after, or with it
RetryBodies ==
    {[readable |-> FALSE, has |-> FALSE, retry_after |-> 0],
     [readable |-> TRUE, has |-> FALSE, retry_after |-> 0]}
    \cup {[readable |-> TRUE, has |-> TRUE, retry_after |-> n] : n \in RetryValues}

NoBody == [readable |-> FALSE, has |-> FALSE, retry_after |-> 0]

\* status 0 stands for requests.get raising (timeout, connection error)
Responses ==
    {[status |-> 200, body |-> NoBody, data |-> b] : b \in Batches}
    \cup {[status |-> 429, body |-> rb, data |-> <<>>] : rb \in RetryBodies}
    \cup {[status |-> 500, body |-> NoBody, data |-> <<>>],
          [status |-> 0, body |-> NoBody, data |-> <<>>]}

\* variant: the advised retry_after is not read
RetryAfter_IgnoreAdvice(body) == DefaultRetry

\* lines 53-57: retry = r.json().get("retry_after", 5), 5 when json() raises
RetryAfter(body) ==
    IF body.readable /\ body.has THEN body.retry_after ELSE DefaultRetry

\* ------------------------------------------------------------------------
\* State
\* ------------------------------------------------------------------------
VARIABLES
    pc,        \* where main() is
    file,      \* contents of state.json
    state,     \* the dict `state` of main()
    last_id,   \* the variable `last_id` of main()
    webhook2,  \* WEBHOOK_2 is set
    file0,     \* contents of state.json when the process started
    msgs,      \* result of fetch_latest_messages in this tick
    new_msgs,  \* the list `new_msgs` of this tick
    idx,       \* position of the loop of line 187 in new_msgs
    retry,     \* the variable `retry` of fetch_latest_messages
    gets,      \* status and 429 body of every GET of this tick, in order
    slept,     \* every duration fetch_latest_messages slept in this tick
    batch,     \* the JSON list of the successful GET of this tick, as sent
    polled,    \* fetch_latest_messages returned in this tick
    fwd,       \* ids passed to forward_to_webhooks in this tick, in order
    posts,     \* every POST issued in this tick, in order
    err,       \* where this tick failed: "none", "http" (HTTPError of the
               \* poll), or the place an exception was raised
    saved,     \* save_state returned in this tick
    pre,       \* last_id and state.json when this tick started
    msg,       \* extractor: the message given to build_signal_text_from_msg
    out,       \* extractor: the str it returned
    tpc,       \* extractor: "in" before the call, "out" after it
    base,      \* extractor: the variable `base_text` after line 106
    now,       \* scheduler: time.time(), in whole seconds
    wake,      \* scheduler: `next_tick` of the last sleep_until_next_tick
    sleptFrom, \* scheduler: `now` of the last sleep_until_next_tick
    spc,       \* scheduler: "sleep" before sleep_until_next_tick, "work" after
    pbase,     \* POLL_BASE
    poffset,   \* POLL_OFFSET
    lastFwd,   \* the id last passed to forward_to_webhooks in this run
    clean      \* no tick of this run has ended in an exception so far

lvars == <<pc, file, state, last_id, webhook2, file0, msgs, new_msgs, idx,
           retry, gets, slept, batch, polled, fwd, posts, err, saved, pre>>
tvars == <<msg, out, tpc, base>>
svars == <<now, wake, sleptFrom, spc, pbase, poffset>>
hvars == <<lastFwd, clean>>
vars == <<lvars, tvars, svars, hvars>>

\* the variables a tick starts from
tickvars == <<msgs, new_msgs, idx, retry, gets, slept, batch, polled, fwd,
              posts, err, saved>>

TickReset ==
    /\ msgs' = <<>> /\ new_msgs' = <<>> /\ idx' = 0 /\ retry' = 0
    /\ gets' = <<>> /\ slept' = <<>> /\ batch' = <<>> /\ polled' = FALSE
    /\ fwd' = <<>> /\ posts' = <<>> /\ err' = "none" /\ saved' = FALSE

InitFiles ==
    {FileMissing, FileNotJson, FileNonObject,
     FileObject(FALSE, NoneId), FileObject(TRUE, NoneId),
     FileObject(TRUE, SomeId(<<NonDigit>>))}
    \cup {FileObject(TRUE, SomeId(i)) : i \in Ids}

\* three of them: no file, one with a last_id, one whose last_id is no
\* number (int(last_id) then raises in every tick)
LiveFiles ==
    {FileMissing, FileObject(TRUE, SomeId(PyStr(10))),
     FileObject(TRUE, SomeId(<<NonDigit>>))}

LoopInit ==
    /\ pc = "start"
    /\ file \in InitFiles
    /\ file0 = file
    /\ state = DefaultState
    /\ last_id = NoneId
    /\ webhook2 \in BOOLEAN
    /\ msgs = <<>> /\ new_msgs = <<>> /\ idx = 0 /\ retry = 0
    /\ gets = <<>> /\ slept = <<>> /\ batch = <<>> /\ polled = FALSE
    /\ fwd = <<>> /\ posts = <<>> /\ err = "none" /\ saved = FALSE
    /\ pre = [last_id |-> NoneId, file |-> file]

TextIdle == msg = Msg(IdOne, "text") /\ out = NoneT /\ tpc = "idle" /\ base = NoneT

\* line 144
Urls == <<1>> \o (IF webhook2 THEN <<2>> ELSE <<>>)

\* ------------------------------------------------------------------------
\* main()
\* ------------------------------------------------------------------------
\* lines 171-172: state = load_state(); last_id = state.get("last_id").
\* state.get on a JSON value that is no dict raises outside the try block.
LoadState ==
    /\ pc = "start"
    /\ state' = load_state(file)
    /\ IF load_state(file).k = "other"
       THEN pc' = "crashed" /\ UNCHANGED last_id
       ELSE pc' = "align" /\ last_id' = StateGet(load_state(file))
    /\ UNCHANGED <<file, webhook2, file0, tickvars, pre, tvars, svars, hvars>>

\* line 175
AlignSleep ==
    /\ pc = "align"
    /\ pc' = "poll"
    /\ pre' = [last_id |-> last_id, file |-> file]
    /\ UNCHANGED <<file, state, last_id, webhook2, file0, tickvars, tvars, svars, hvars>>

\* lines 60-63 and what the except clauses of main() do with a failure
AfterResponse(r) ==
    IF r.status = 0
    THEN err' = "poll_exc" /\ pc' = "sleep" /\ UNCHANGED <<msgs, batch, polled>>
    ELSE IF r.status # 200
    THEN err' = "http" /\ pc' = "sleep" /\ UNCHANGED <<msgs, batch, polled>>
    ELSE /\ msgs' = data_sorted(r.data)
         /\ batch' = r.data
         /\ polled' = TRUE
         /\ pc' = "filter"
         /\ UNCHANGED err

\* lines 51-57: the first GET
Get1 ==
    /\ pc = "poll"
    /\ \E r \in Responses :
          /\ gets' = Append(gets, [status |-> r.status, body |-> r.body])
          /\ IF r.status = 429
             THEN /\ retry' = RetryAfter(r.body)
                  /\ pc' = "retry_sleep"
                  /\ UNCHANGED <<msgs, batch, polled, err>>
             ELSE AfterResponse(r) /\ UNCHANGED retry
    /\ UNCHANGED <<file, state, last_id, webhook2, file0, new_msgs, idx,
                   slept, fwd, posts, saved, pre, tvars, svars, hvars>>

\* line 58
RetrySleep ==
    /\ pc = "retry_sleep"
    /\ slept' = Append(slept, retry + RetryBuffer)
    /\ pc' = "get2"
    /\ UNCHANGED <<file, state, last_id, webhook2, file0, msgs, new_msgs, idx,
                   retry, gets, batch, polled, fwd, posts, err, saved, pre, tvars, svars, hvars>>

\* line 59: the second GET
Get2 ==
    /\ pc = "get2"
    /\ \E r \in Responses :
          /\ gets' = Append(gets, [status |-> r.status, body |-> r.body])
          /\ AfterResponse(r)
    /\ UNCHANGED <<file, state, last_id, webhook2, file0, new_msgs, idx,
                   retry, slept, fwd, posts, saved, pre, tvars, svars, hvars>>

\* lines 180-186 and 194-196
Filter ==
    /\ pc = "filter"
    /\ IF FilterRaises(msgs, last_id)
       THEN err' = "filter_exc" /\ pc' = "sleep" /\ UNCHANGED <<new_msgs, idx>>
       ELSE /\ new_msgs' = NewMsgs(msgs, last_id)
            /\ IF NewMsgs(msgs, last_id) = <<>>
               THEN pc' = "sleep" /\ UNCHANGED idx
               ELSE pc' = "forward" /\ idx' = 1
            /\ UNCHANGED err
    /\ UNCHANGED <<file, state, last_id, webhook2, file0, msgs, retry, gets,
                   slept, batch, polled, fwd, posts, saved, pre, tvars, svars, hvars>>

\* line 134: text = build_signal_text_from_msg(msg), for every message the
\* channel can list
signal_text ==
    [m \in Messages \cup {ExampleBatch[i] : i \in DOMAIN ExampleBatch} |->
        build_signal_text_from_msg(m)]

\* variant: last_id is advanced inside the loop, after every message
ForwardOne_AdvancePerMsg ==
    /\ pc = "forward"
    /\ LET m == new_msgs[idx] IN
          /\ fwd' = Append(fwd, m.id)
          /\ IF Raises(m)
             THEN /\ err' = "forward_exc" /\ pc' = "sleep"
                  /\ UNCHANGED <<idx, posts, last_id>>
             ELSE /\ IF ShouldSkip(signal_text[m])
                     THEN UNCHANGED posts
                     ELSE \E oks \in [1..Len(Urls) -> BOOLEAN] :
                             posts' = posts \o
                                 PostsFor(m, signal_text[m], Urls, oks)
                  /\ idx' = idx + 1
                  /\ pc' = IF idx = Len(new_msgs) THEN "save" ELSE "forward"
                  /\ last_id' = SomeId(m.id)
                  /\ UNCHANGED err
    /\ UNCHANGED <<file, state, webhook2, file0, msgs, new_msgs,
                   retry, gets, slept, batch, polled, saved, pre, tvars, svars,
                   hvars>>

\* lines 187-188: forward_to_webhooks(new_msgs[idx])
ForwardMsg ==
    /\ pc = "forward"
    /\ LET m == new_msgs[idx] IN
          /\ fwd' = Append(fwd, m.id)
          /\ IF Raises(m)
             THEN err' = "forward_exc" /\ pc' = "sleep" /\ UNCHANGED <<idx, posts>>
             ELSE /\ IF ShouldSkip(signal_text[m])
                     THEN UNCHANGED posts
                     ELSE \E oks \in [1..Len(Urls) -> BOOLEAN] :
                             posts' = posts \o
                                 PostsFor(m, signal_text[m], Urls, oks)
                  /\ idx' = idx + 1
                  /\ pc' = IF idx = Len(new_msgs) THEN "save" ELSE "forward"
                  /\ UNCHANGED err
    /\ UNCHANGED <<file, state, last_id, webhook2, file0, msgs, new_msgs,
                   retry, gets, slept, batch, polled, saved, pre, tvars, svars>>

ForwardOne == ForwardMsg /\ UNCHANGED hvars

\* line 189
NextLastId(ms) == SomeId(ms[Len(ms)].id)

\* lines 189-191
Save ==
    /\ pc = "save"
    /\ last_id' = NextLastId(new_msgs)
    /\ state' = [state EXCEPT !.has = TRUE, !.last_id = NextLastId(new_msgs)]
    /\ \E o \in SaveOutcomes :
          /\ file' = save_state(state', file, o)
          /\ saved' = (o = "ok")
          /\ err' = IF o = "ok" THEN "none" ELSE "save_exc"
    /\ pc' = "sleep"
    /\ UNCHANGED <<webhook2, file0, msgs, new_msgs, idx, retry, gets, slept,
                   batch, polled, fwd, posts, pre, tvars, svars, hvars>>

\* lines 189-191 in two steps, for the runs in which the process can be
\* stopped inside save_state.  First half of line 47: write_text opens
\* state.json for writing, which truncates it; line 189 has set last_id
SaveOpen ==
    /\ pc = "save"
    /\ last_id' = NextLastId(new_msgs)
    /\ state' = [state EXCEPT !.has = TRUE, !.last_id = NextLastId(new_msgs)]
    /\ \E opened \in BOOLEAN :
          IF opened
          THEN /\ file' = save_state(state', file, "write_fail")
               /\ pc' = "writing"
               /\ UNCHANGED err
          ELSE /\ file' = save_state(state', file, "open_fail")
               /\ pc' = "sleep"
               /\ err' = "save_exc"
    /\ UNCHANGED <<webhook2, file0, msgs, new_msgs, idx, retry, gets, slept,
                   batch, polled, fwd, posts, saved, pre, tvars, svars, hvars>>

\* variant: an exception of the write is not caught and ends the process
SaveWrite_Uncaught ==
    /\ pc = "writing"
    /\ \E o \in {"ok", "write_fail"} :
          /\ file' = save_state(state, file, o)
          /\ saved' = (o = "ok")
          /\ err' = IF o = "ok" THEN "none" ELSE "save_exc"
          /\ pc' = IF o = "ok" THEN "sleep" ELSE "crashed"
    /\ UNCHANGED <<state, last_id, webhook2, file0, msgs, new_msgs, idx, retry,
                   gets, slept, batch, polled, fwd, posts, pre, tvars, svars, hvars>>

\* line 47, second half: the dumped state is written and the file closed
SaveWrite ==
    /\ pc = "writing"
    /\ \E o \in {"ok", "write_fail"} :
          /\ file' = save_state(state, file, o)
          /\ saved' = (o = "ok")
          /\ err' = IF o = "ok" THEN "none" ELSE "save_exc"
    /\ pc' = "sleep"
    /\ UNCHANGED <<state, last_id, webhook2, file0, msgs, new_msgs, idx, retry,
                   gets, slept, batch, polled, fwd, posts, pre, tvars, svars, hvars>>

\* line 207, then the next iteration of the loop
SleepNext ==
    /\ pc = "sleep"
    /\ pc' = "poll"
    /\ TickReset
    /\ pre' = [last_id |-> last_id, file |-> file]
    /\ UNCHANGED <<file, state, last_id, webhook2, file0, tvars, svars>>

SleepTick == SleepNext /\ UNCHANGED hvars

Next ==
    \/ LoadState
    \/ AlignSleep
    \/ Get1
    \/ RetrySleep
    \/ Get2
    \/ Filter
    \/ ForwardOne
    \/ Save
    \/ SleepTick

\* the same steps with save_state in its two halves
NextSteps ==
    \/ LoadState
    \/ AlignSleep
    \/ Get1
    \/ RetrySleep
    \/ Get2
    \/ Filter
    \/ ForwardOne
    \/ SaveOpen
    \/ SaveWrite
    \/ SleepTick

\* the scheduler and the run history while they are not looked at
SchedIdle ==
    /\ now = 0 /\ wake = 0 /\ sleptFrom = 0 /\ spc = "idle"
    /\ pbase = PollBaseDefault /\ poffset = PollOffsetDefault

HistInit == lastFwd = NoneId /\ clean = TRUE

Init == LoopInit /\ TextIdle /\ SchedIdle /\ HistInit

Spec == Init /\ [][Next]_vars

\* ------------------------------------------------------------------------
\* The extractor on its own
\* ------------------------------------------------------------------------
LoopIdle ==
    /\ pc = "idle"
    /\ file = FileMissing
    /\ file0 = FileMissing
    /\ state = DefaultState
    /\ last_id = NoneId
    /\ webhook2 = FALSE
    /\ msgs = <<>> /\ new_msgs = <<>> /\ idx = 0 /\ retry = 0
    /\ gets = <<>> /\ slept = <<>> /\ batch = <<>> /\ polled = FALSE
    /\ fwd = <<>> /\ posts = <<>> /\ err = "none" /\ saved = FALSE
    /\ pre = [last_id |-> NoneId, file |-> FileMissing]

TextInit == msg \in TextMsgs /\ out = NoneT /\ tpc = "in" /\ base = NoneT

\* one call of build_signal_text_from_msg
Build ==
    /\ tpc = "in"
    /\ out' = build_signal_text_from_msg(msg)
    /\ base' = base_text_of(msg)
    /\ tpc' = "out"
    /\ UNCHANGED <<msg, lvars, svars, hvars>>

NextText == Build

InitText == TextInit /\ LoopIdle /\ SchedIdle /\ HistInit

SpecText == InitText /\ [][NextText]_vars

\* ------------------------------------------------------------------------
\* Properties of the extractor (checked under SpecText)
\* ------------------------------------------------------------------------
\* the lines of a text: the pieces between newlines
RECURSIVE Lines(_)
Lines(t) ==
    LET P == {i \in 1..Len(t) : t[i] = "NL"}
    IN  IF P = {} THEN <<t>>
        ELSE <<SubSeq(t, 1, MinOf(P) - 1)>> \o Lines(SubSeq(t, MinOf(P) + 1, Len(t)))

\* the line holds a match of the Timeframe pattern
IsTfLine(line) == \E p \in 1..Len(line) : MatchEnd(line, p) > 0

TfLineCount(t) == Cardinality({i \in 1..Len(Lines(t)) : IsTfLine(Lines(t)[i])})

\* C3: the returned text holds at most one Timeframe line, and when it
\* holds one it is the last line of the text.
C3_AtMostOneTfLast ==
    tpc = "out" =>
        /\ TfLineCount(out) <= 1
        /\ TfLineCount(out) = 1 => IsTfLine(Lines(out)[Len(Lines(out))])

\* C7: content empty or absent and first-embed description empty or absent
\* (whatever the footer) gives the empty str.
C7_EmptyBaseGivesEmpty ==
    (/\ tpc = "out"
     /\ Strip(msg.content) = <<>>
     /\ (msg.embeds = <<>> \/ Strip(msg.embeds[1].description) = <<>>))
    => out = <<>>

\* a content-only message whose first block has no Timeframe line and whose
\* content has one further down
LaterBlockTf(m) ==
    /\ m.embeds = <<>>
    /\ ~Truthy(_extract_timeframe_from_text(_first_block(m.content)))
    /\ Truthy(_extract_timeframe_from_text(m.content))

ExampleTfLine == <<"Timeframe", ":", "SP", "A", "B">>

\* C8 as stated: such a message gives exactly its trimmed first block, no
\* Timeframe line appended.
C8_FirstBlockOnly ==
    (tpc = "out" /\ LaterBlockTf(msg)) =>
        /\ out = _first_block(msg.content)
        /\ msg.content = ExampleContent => out = ExampleFirstBlock

\* C8 amended: such a message gives its trimmed first block, a newline and
\* the first Timeframe match of the full content.
C8_FirstBlockPlusContentTf ==
    (tpc = "out" /\ LaterBlockTf(msg)) =>
        /\ out = _first_block(msg.content) \o <<"NL">>
                    \o _extract_timeframe_from_text(msg.content)
        /\ msg.content = ExampleContent =>
              out = ExampleFirstBlock \o <<"NL">> \o ExampleTfLine

C8_Witness ==
    /\ tpc = "out"
    /\ msg.embeds = <<>>
    /\ msg.content = ExampleContent
    /\ out = ExampleFirstBlock \o <<"NL">> \o ExampleTfLine

\* ------------------------------------------------------------------------
\* Properties of the main loop (checked under Spec)
\* ------------------------------------------------------------------------
Range(f) == {f[i] : i \in DOMAIN f}

\* the ids of a set, ascending by numeric value
RECURSIVE AscIds(_)
AscIds(S) ==
    IF S = {} THEN <<>>
    ELSE LET lo == CHOOSE x \in S : \A y \in S : PyInt(x) <= PyInt(y)
         IN  <<lo>> \o AscIds(S \ {lo})

\* last_id L is absent or a number
Comparable(L) == ~L.some \/ IsNumeric(L.s)

\* ids of the batch b that are numerically above L (all of them without L)
IdsAbove(b, L) ==
    {m.id : m \in {x \in Range(b) : ~L.some \/ PyInt(x.id) > PyInt(L.s)}}

\* the file holds the dict {"last_id": id}
FileHolds(id) == file.k = "object" /\ file.has /\ file.last_id = SomeId(id)

\* what C1 says of a finished tick
DedupOfTick ==
    /\ fwd = AscIds(IdsAbove(batch, pre.last_id))
    /\ fwd # <<>> => FileHolds(fwd[Len(fwd)])
    /\ fwd = <<>> => file = pre.file

\* C1 as stated: every tick whose poll succeeded has forwarded exactly the
\* messages above last_id, ascending, and has persisted the largest id.
C1_DedupEveryPolledTick ==
    (pc = "sleep" /\ polled /\ Comparable(pre.last_id)) => DedupOfTick

\* the message of the batch b with the id
MsgOf(b, id) == CHOOSE m \in Range(b) : m.id = id

\* the ids a tick that starts with last_id L is to forward from the batch b,
\* in the order of forwarding: those above L ascending, none when int(L)
\* raises in the filter
NewIds(b, L) == IF Comparable(L) THEN AscIds(IdsAbove(b, L)) ELSE <<>>

\* positions in ids of the messages on which forward_to_webhooks raises
RaisingAt(b, ids) == {i \in 1..Len(ids) : Raises(MsgOf(b, ids[i]))}

\* ids up to and including the first on which forward_to_webhooks raises,
\* all of them when it raises on none
UpToFirstRaise(b, ids) ==
    IF RaisingAt(b, ids) = {} THEN ids
    ELSE SubSeq(ids, 1, CHOOSE i \in RaisingAt(b, ids) :
                            \A j \in RaisingAt(b, ids) : i <= j)

\* C1 amended: every tick whose poll succeeded has passed to
\* forward_to_webhooks, each once and ascending, the messages above last_id up
\* to and including the first on which forward_to_webhooks raised (none when
\* last_id is no number).  When it raised on none and save_state returned,
\* the file holds the largest of these ids; when save_state raised, last_id
\* has advanced to that id in memory only and the file is as it was or
\* truncated; when forward_to_webhooks raised or nothing was new, file and
\* last_id are as before the tick.
C1_DedupPolledTick ==
    (pc = "sleep" /\ polled) =>
        LET want == NewIds(batch, pre.last_id)
            raised == RaisingAt(batch, want) # {}
        IN  /\ fwd = UpToFirstRaise(batch, want)
            /\ (raised \/ want = <<>>) =>
                  /\ file = pre.file /\ last_id = pre.last_id
                  /\ raised <=> err = "forward_exc"
                  /\ err \in {"none", "filter_exc", "forward_exc"}
            /\ (~raised /\ want # <<>>) =>
                  /\ last_id = SomeId(want[Len(want)])
                  /\ err \in {"none", "save_exc"}
                  /\ err = "none" => FileHolds(want[Len(want)])
                  /\ err = "save_exc" => file \in {pre.file, FileNotJson}

\* the tick of the example: last_id "9", the batch 8, 9, 10, 11 listed newest
\* first; 8 and 9 are left out, 10 then 11 are forwarded, the file holds "11"
C1_Witness ==
    /\ pc = "sleep" /\ polled /\ err = "none"
    /\ pre.last_id = SomeId(PyStr(9))
    /\ batch = ExampleNewestFirst
    /\ fwd = <<PyStr(10), PyStr(11)>>
    /\ FileHolds(PyStr(11))

\* a set last_id stays set and does not decrease
NoDecrease(a, b) ==
    a.some => /\ b.some
              /\ IsNumeric(a.s) => (IsNumeric(b.s) /\ PyInt(b.s) >= PyInt(a.s))

\* C2: once set, last_id never decreases and never returns to None, and
\* every value save_state writes is the in-memory value of that moment.
C2_Monotone ==
    [][/\ NoDecrease(last_id, last_id')
       /\ (file' # file /\ file'.k = "object") =>
             /\ file'.has /\ file'.last_id = last_id'
             /\ file.k = "object" => NoDecrease(StateGet(file), StateGet(file'))]_vars

C2_Witness ==
    /\ pc = "sleep" /\ saved
    /\ pre.last_id.some /\ IsNumeric(pre.last_id.s)
    /\ PyInt(last_id.s) > PyInt(pre.last_id.s)
    /\ batch # msgs

\* the tick failed at the poll or while forwarding
PollOrForwardFailed == (~polled /\ err \in {"http", "poll_exc"}) \/ err = "forward_exc"

\* messages forwarded before the failure that had a text to send
SentBefore == {new_msgs[i].id : i \in {j \in 1..(idx - 1) : new_msgs[j].content = <<"A">>}}

\* C4: a tick that failed at the poll or while forwarding sleeps with the
\* in-memory and the persisted last_id it started with, and every message
\* forwarded before the failure has its POSTs.
C4_NoAdvanceOnError ==
    (pc = "sleep" /\ PollOrForwardFailed) =>
        /\ last_id = pre.last_id
        /\ file = pre.file
        /\ ~saved
        /\ \A id \in SentBefore : \A u \in Range(Urls) :
              \E k \in DOMAIN posts : posts[k].id = id /\ posts[k].url = u

C4_Witness ==
    /\ pc = "sleep" /\ err = "forward_exc"
    /\ idx = 2 /\ posts # <<>>
    /\ pre.last_id.some
    /\ last_id = pre.last_id

\* messages of this tick for which forward_to_webhooks has returned
Forwarded == {new_msgs[i] : i \in 1..(idx - 1)}

\* number of POSTs of this tick for message id to endpoint u
PostCount(id, u) ==
    Cardinality({k \in DOMAIN posts : posts[k].id = id /\ posts[k].url = u})

\* the message has a text to send / has none (the kinds of Msg)
HasText(m) == m.ctype = "str" /\ Strip(m.content) # <<>>
HasNoText(m) == m.ctype = "str" /\ Strip(m.content) = <<>> /\ m.embeds = <<>>

\* C5: every forwarded message with a text got exactly one POST to every
\* configured endpoint whatever the outcomes, a failed POST stops neither
\* the tick nor the later messages, and the last_id a tick persists covers
\* every message it posted, failed POSTs included.
C5_EndpointIndependence ==
    /\ \A m \in Forwarded : HasText(m) =>
          /\ PostCount(m.id, 1) = 1
          /\ PostCount(m.id, 2) = (IF webhook2 THEN 1 ELSE 0)
    /\ (posts # <<>> /\ pc \in {"forward", "save"}) => err = "none"
    /\ (pc = "sleep" /\ posts # <<>> /\ err # "forward_exc") =>
          idx = Len(new_msgs) + 1
    /\ (pc = "sleep" /\ saved) =>
          \A k \in DOMAIN posts :
             file.k = "object" /\ PyInt(file.last_id.s) >= PyInt(posts[k].id)

C5_Witness ==
    /\ pc = "sleep" /\ saved /\ webhook2
    /\ Len(posts) = 4
    /\ ~posts[1].ok /\ posts[2].ok /\ posts[2].id = posts[1].id
    /\ ~posts[4].ok
    /\ FileHolds(posts[4].id)

\* C6: a new message without text gets no POST and raises nothing, and the
\* last_id the tick sets and persists covers it, so that it is not new
\* again.
C6_EmptySkippedButSeen ==
    /\ \A m \in Forwarded : HasNoText(m) => \A u \in {1, 2} : PostCount(m.id, u) = 0
    /\ (pc \in {"forward", "save"} /\ idx > 1 /\ HasNoText(new_msgs[idx - 1])) =>
          err = "none"
    /\ (pc = "sleep" /\ err \in {"none", "save_exc"}) =>
          \A m \in Forwarded : HasNoText(m) =>
             /\ ~IsNew(m.id, last_id)
             /\ saved => (file.k = "object" /\ PyInt(file.last_id.s) >= PyInt(m.id))

C6_Witness ==
    /\ pc = "sleep" /\ saved
    /\ Len(new_msgs) = 2
    /\ HasText(new_msgs[1]) /\ HasNoText(new_msgs[2])
    /\ \A k \in DOMAIN posts : posts[k].id = new_msgs[1].id
    /\ FileHolds(new_msgs[2].id)

\* seconds the retry sleeps after a 429 with this body
AdvisedSleep(body) ==
    IF ~body.readable THEN 6
    ELSE IF ~body.has THEN 6
    ELSE body.retry_after + 1

\* fetch_latest_messages is over in this tick
FetchOver == pc \in {"filter", "forward", "save", "sleep"}

\* C9: at most two GETs per poll; the second exactly when the first was a
\* 429, and after a sleep of retry_after (5 without advice) plus 1; any
\* other failure of the first GET is not retried; a failed second GET fails
\* the poll with nothing forwarded and nothing saved.
C9_RateLimitRetry ==
    /\ Len(gets) <= 2
    /\ FetchOver => (Len(gets) = 2 <=> gets[1].status = 429)
    /\ (pc = "get2" \/ Len(gets) = 2) => slept = <<AdvisedSleep(gets[1].body)>>
    /\ Len(gets) < 2 => (slept = <<>> \/ pc = "get2")
    /\ (Len(gets) >= 1 /\ gets[1].status \in {500, 0}) =>
          (Len(gets) = 1 /\ pc = "sleep" /\ ~polled)
    /\ (Len(gets) = 2 /\ gets[2].status # 200) =>
          /\ pc = "sleep" /\ ~polled /\ err # "none"
          /\ fwd = <<>> /\ posts = <<>> /\ ~saved
          /\ file = pre.file /\ last_id = pre.last_id

C9_Witness ==
    /\ pc = "sleep"
    /\ Len(gets) = 2
    /\ gets[1].status = 429 /\ gets[1].body.has /\ gets[1].body.retry_after = 7
    /\ gets[2].status = 429
    /\ slept = <<8>>
    /\ err = "http"

\* contents of state.json that C10 names
Unreadable ==
    {FileMissing, FileNotJson, FileNonObject, FileObject(FALSE, NoneId),
     FileObject(TRUE, SomeId(<<NonDigit>>))}

\* C10: with an unreadable state file, startup reaches the loop with
\* last_id absent, and a successful poll of a non-empty batch forwards it
\* and persists its last id.
C10_UnreadableStateIsNoState ==
    (file0 \in Unreadable /\ pc # "start") =>
        /\ pc # "crashed"
        /\ pc = "align" => last_id = NoneId
        /\ (pc = "filter" /\ msgs # <<>>) => ~FilterRaises(msgs, last_id)

\* ------------------------------------------------------------------------
\* Scheduler: sleep_until_next_tick on its own
\* ------------------------------------------------------------------------
\* line 159: (now // POLL_BASE) * POLL_BASE
period_start(n, b) == (n \div b) * b

\* variant: line 161 written with <=
next_tick_Leq(n, b, o) ==
    IF n <= period_start(n, b) + o
    THEN period_start(n, b) + o
    ELSE period_start(n, b) + b + o

\* variant: without the if of lines 161-162
next_tick_NoEarly(n, b, o) == period_start(n, b) + b + o

\* lines 160-162
next_tick(n, b, o) ==
    IF n < period_start(n, b) + o
    THEN period_start(n, b) + o
    ELSE period_start(n, b) + b + o

\* line 163: max(0, next_tick - now)
sleep_s(n, b, o) ==
    IF next_tick(n, b, o) - n > 0 THEN next_tick(n, b, o) - n ELSE 0

\* POLL_BASE and POLL_OFFSET: the defaults, and every small configuration
\* with 0 <= POLL_OFFSET < POLL_BASE
Configs ==
    {[b |-> PollBaseDefault, o |-> PollOffsetDefault]}
    \cup {c \in [b : 1..MaxBase, o : 0..(MaxBase - 1)] : c.o < c.b}

\* how long the work between two sleeps can take: no time, a second, a full
\* period, more than two periods
WorkTimes == {0, 1, pbase, 2 * pbase + 1}

TickInit ==
    /\ \E c \in Configs : pbase = c.b /\ poffset = c.o
    /\ now \in 0..MaxNow
    /\ wake = 0 /\ sleptFrom = 0
    /\ spc = "sleep"

\* lines 158-164: the process sleeps until next_tick
TickSleep ==
    /\ spc = "sleep"
    /\ sleptFrom' = now
    /\ wake' = next_tick(now, pbase, poffset)
    /\ now' = now + sleep_s(now, pbase, poffset)
    /\ spc' = "work"
    /\ UNCHANGED <<pbase, poffset, lvars, tvars, hvars>>

\* lines 177-205: one iteration of the loop takes d seconds
TickWork ==
    /\ spc = "work"
    /\ \E d \in WorkTimes :
          /\ now + d <= MaxNow
          /\ now' = now + d
    /\ spc' = "sleep"
    /\ UNCHANGED <<wake, sleptFrom, pbase, poffset, lvars, tvars, hvars>>

NextTick == TickSleep \/ TickWork

InitTick == TickInit /\ LoopIdle /\ TextIdle /\ HistInit

SpecTick == InitTick /\ [][NextTick]_vars

\* C13: with base 300 and offset 5, a sleep that starts T seconds after a
\* multiple of 300 wakes at that multiple + 5 when 0 <= T < 5 and at that
\* multiple + 305 when 5 <= T < 305.
C13_ClockAlignment ==
    (spc = "work" /\ pbase = 300 /\ poffset = 5) =>
        \A T \in 0..304 :
            (sleptFrom >= T /\ (sleptFrom - T) % 300 = 0) =>
                /\ wake = (sleptFrom - T) + (IF T < 5 THEN 5 ELSE 305)
                /\ now = wake

C13_Witness ==
    /\ spc = "work" /\ pbase = 300 /\ poffset = 5
    /\ sleptFrom = 305 /\ wake = 605

\* C20: for 0 <= POLL_OFFSET < POLL_BASE the wake time is strictly later
\* than the time the sleep starts, at most POLL_BASE later, and congruent to
\* POLL_OFFSET modulo POLL_BASE; the process sleeps until then.
C20_NextAlignedBoundary ==
    spc = "work" =>
        /\ wake > sleptFrom
        /\ wake - sleptFrom <= pbase
        /\ wake % pbase = poffset
        /\ now = wake

C20_Witness ==
    /\ spc = "work" /\ pbase = 3 /\ poffset = 2
    /\ sleptFrom = 9 /\ wake = 11

\* ------------------------------------------------------------------------
\* fetch_latest_messages: the order of the returned list
\* ------------------------------------------------------------------------
\* the list holds exactly the messages of the other list (ids are distinct)
SameMessages(a, b) == Len(a) = Len(b) /\ Range(a) = Range(b)

\* C14: whatever order the remote lists the messages in, the list that
\* fetch_latest_messages returns holds the same messages, none added and
\* none dropped, ascending by the integer value of the id ("9" before "10").
C14_FetchSortedByIntId ==
    polled =>
        /\ SameMessages(msgs, batch)
        /\ \A i, j \in 1..Len(msgs) :
              i < j => PyInt(msgs[i].id) < PyInt(msgs[j].id)

\* the remote listed "10" before "9" and the fetch returned "9" first
C14_Witness ==
    /\ polled /\ Len(batch) = 2
    /\ batch[1].id = PyStr(10) /\ batch[2].id = PyStr(9)
    /\ msgs[1].id = PyStr(9) /\ msgs[2].id = PyStr(10)

\* ------------------------------------------------------------------------
\* the state file against the last_id of the running loop
\* ------------------------------------------------------------------------
\* the last_id a state file carries (None when it carries none)
FileLastId(f) == IF f.k = "object" /\ f.has THEN f.last_id ELSE NoneId

\* a <= b for optional ids: None is lowest, numbers compare by value, an id
\* that is no number is comparable with itself only
IdLeq(a, b) ==
    \/ ~a.some
    \/ /\ b.some
       /\ \/ a.s = b.s
          \/ IsNumeric(a.s) /\ IsNumeric(b.s) /\ PyInt(a.s) <= PyInt(b.s)

\* C19: once the loop runs, the last_id in the state file is never above
\* the in-memory last_id; the two are equal when the loop sleeps after a
\* save_state that returned; after a save_state that raised, the in-memory
\* last_id is strictly ahead of the file.
C19_FileNotAhead ==
    pc \notin {"start", "crashed"} =>
        /\ IdLeq(FileLastId(file), last_id)
        /\ (pc = "sleep" /\ saved) =>
              file.k = "object" /\ FileLastId(file) = last_id
        /\ (pc = "sleep" /\ err = "save_exc") =>
              last_id.some /\ FileLastId(file) # last_id

\* a save that failed to open the file: the file keeps "9", memory has "10"
C19_Witness ==
    /\ pc = "sleep" /\ err = "save_exc"
    /\ FileLastId(file) = SomeId(PyStr(9))
    /\ last_id = SomeId(PyStr(10))

\* ------------------------------------------------------------------------
\* build_signal_text_from_msg: where the base text comes from
\* ------------------------------------------------------------------------
\* the message with every embed after the first removed
FirstEmbedOnly(m) ==
    [m EXCEPT !.embeds = IF m.embeds = <<>> THEN <<>> ELSE <<m.embeds[1]>>]

\* description of the first embed as the message carries it ("" when the
\* message has no embed or the embed has no description)
RawDesc(m) == IF m.embeds = <<>> THEN <<>> ELSE m.embeds[1].description

\* C15 as stated: a first embed with a non-empty description gives the
\* first block of that description as base text whatever the content is;
\* no embed, or an empty or absent description, gives the first block of
\* the content; embeds after the first do not change the output.
C15_SourceSelection ==
    tpc = "out" =>
        /\ RawDesc(msg) # <<>> => base = _first_block(RawDesc(msg))
        /\ RawDesc(msg) = <<>> => base = _first_block(msg.content)
        /\ out = build_signal_text_from_msg(FirstEmbedOnly(msg))

\* C15 amended: the same, a description of whitespace only counting as
\* empty.
C15_SourceSelectionTrimmed ==
    tpc = "out" =>
        /\ Strip(RawDesc(msg)) # <<>> => base = _first_block(RawDesc(msg))
        /\ Strip(RawDesc(msg)) = <<>> => base = _first_block(msg.content)
        /\ out = build_signal_text_from_msg(FirstEmbedOnly(msg))

\* two embeds, a description and a content with different first blocks, and
\* a second embed that has a description and a Timeframe footer of its own
C15_Witness ==
    /\ tpc = "out" /\ Len(msg.embeds) = 2
    /\ Strip(RawDesc(msg)) # <<>>
    /\ _first_block(msg.content) # <<>>
    /\ _first_block(msg.content) # _first_block(RawDesc(msg))
    /\ base = _first_block(RawDesc(msg))
    /\ msg.embeds[2].footer = TfB
    /\ ~IsTfLine(out)

\* ------------------------------------------------------------------------
\* build_signal_text_from_msg: a base block that ends with a Timeframe line
\* ------------------------------------------------------------------------
LastLine(t) == Lines(t)[Len(Lines(t))]

\* the last line of the block ends with a match of Timeframe:\s*[A-Za-z0-9]+
EndsWithTf(b) == \E q \in 1..Len(LastLine(b)) : TailMatch(LastLine(b), q)

\* that match: the Timeframe line the block ends with
OwnTf(b) ==
    LET l == LastLine(b)
        q == MinOf({p \in 1..Len(l) : TailMatch(l, p)})
    IN  Strip(SubSeq(l, q, Len(l)))

\* lines 113 and 99-102: the Timeframe lines of the content and of the
\* first embed's footer (None when there is none)
ContentTf(m) == TfFromContent(Strip(m.content))
FooterTf(m) ==
    IF m.embeds # <<>> THEN FooterTfLine(Strip(m.embeds[1].footer)) ELSE NoneT

\* x is a Timeframe line other than the one the block b ends with
OtherTf(x, b) == Truthy(x) /\ x # OwnTf(b)

\* C16: when the base block ends with a Timeframe line and the content or
\* the footer holds a different one, the output ends with the base block's
\* own Timeframe line and holds neither the content's nor the footer's.
C16_BaseTimeframeWins ==
    (/\ tpc = "out"
     /\ EndsWithTf(base)
     /\ (OtherTf(ContentTf(msg), base) \/ OtherTf(FooterTf(msg), base)))
    => /\ LastLine(out) = OwnTf(base)
       /\ OtherTf(ContentTf(msg), base) =>
             \A i \in 1..Len(Lines(out)) : Lines(out)[i] # ContentTf(msg)
       /\ OtherTf(FooterTf(msg), base) =>
             \A i \in 1..Len(Lines(out)) : Lines(out)[i] # FooterTf(msg)

\* ------------------------------------------------------------------------
\* build_signal_text_from_msg: a base block without a Timeframe line
\* ------------------------------------------------------------------------
\* the block b with the line tf as a new last line
WithFinalLine(b, tf) == IF b = <<>> THEN tf ELSE b \o <<"NL">> \o tf

\* C17: when the base block holds no Timeframe line, the Timeframe line of
\* the full content is appended as a new last line; without one in the
\* content the footer's is appended; without any the output is the trimmed
\* base block and nothing else.
C17_LookupOrder ==
    (tpc = "out" /\ ~Truthy(_extract_timeframe_from_text(base))) =>
        out = IF Truthy(ContentTf(msg)) THEN WithFinalLine(base, ContentTf(msg))
              ELSE IF Truthy(FooterTf(msg)) THEN WithFinalLine(base, FooterTf(msg))
              ELSE base

\* a description without a Timeframe line, a content and a footer that hold
\* different ones: the content's is the last line
C17_Witness ==
    /\ tpc = "out"
    /\ base # <<>> /\ ~Truthy(_extract_timeframe_from_text(base))
    /\ Truthy(ContentTf(msg)) /\ Truthy(FooterTf(msg))
    /\ ContentTf(msg) # FooterTf(msg)
    /\ out = base \o <<"NL">> \o ContentTf(msg)

\* ------------------------------------------------------------------------
\* the ids forwarded over the ticks of one run
\* ------------------------------------------------------------------------
\* the loop with the history of the run: lastFwd is the id last passed to
\* forward_to_webhooks, clean tells that no tick has ended in an exception
ForwardOneRun ==
    /\ ForwardMsg
    /\ lastFwd' = (IF clean THEN SomeId(new_msgs[idx].id) ELSE lastFwd)
    /\ UNCHANGED clean

SleepTickRun ==
    /\ SleepNext
    /\ clean' = (clean /\ err = "none")
    /\ lastFwd' = (IF clean /\ err = "none" THEN lastFwd ELSE NoneId)

NextRun ==
    \/ LoadState
    \/ AlignSleep
    \/ Get1
    \/ RetrySleep
    \/ Get2
    \/ Filter
    \/ ForwardOneRun
    \/ Save
    \/ SleepTickRun

InitRun == Init /\ file \in LiveFiles

SpecRun == InitRun /\ [][NextRun]_vars

\* the step passes one more message to forward_to_webhooks
ForwardsOne == Len(fwd') = Len(fwd) + 1

\* number of POSTs of the sequence ps for message id to endpoint u
PostsOf(ps, id, u) ==
    Cardinality({k \in DOMAIN ps : ps[k].id = id /\ ps[k].url = u})

\* C18: as long as no tick of the run has ended in an exception, every id
\* passed to forward_to_webhooks is numerically above the one passed before
\* it, in the same tick or in an earlier one, and forward_to_webhooks posts
\* it at most once to each endpoint.
C18_ForwardedIdsIncrease ==
    [][(ForwardsOne /\ clean) =>
          /\ lastFwd.some => PyInt(fwd'[Len(fwd')]) > PyInt(lastFwd.s)
          /\ \A u \in {1, 2} : PostsOf(posts', fwd'[Len(fwd')], u) <= 1]_vars

\* a later tick of a clean run whose batch overlaps what was forwarded
\* before: an earlier tick has saved, the batch holds an id that is not above
\* last_id, and a message has been forwarded in this tick
C18_Witness ==
    /\ clean /\ err = "none" /\ fwd # <<>>
    /\ pre.file # file0 /\ pre.file.k = "object"
    /\ pre.last_id.some
    /\ \E i \in 1..Len(batch) : PyInt(batch[i].id) <= PyInt(pre.last_id.s)
    /\ lastFwd = SomeId(fwd[Len(fwd)])

\* ------------------------------------------------------------------------
\* the loop under interruption
\* ------------------------------------------------------------------------
\* the positions of the process after load_state
LoopPcs ==
    {"align", "poll", "retry_sleep", "get2", "filter", "forward", "save",
     "writing", "sleep"}

\* lines 198-200 and the sleeps of lines 175 and 207: a KeyboardInterrupt
\* ends the process wherever it arrives (inside the try it is caught and
\* breaks the loop, in a sleep outside the try it is not caught), also
\* inside write_text after the file was truncated; of the ended process
\* nothing is left but the file as it is at that moment
Interrupt ==
    /\ pc \in LoopPcs
    /\ pc' = "stopped"
    /\ TickReset
    /\ state' = DefaultState
    /\ last_id' = NoneId
    /\ pre' = [last_id |-> NoneId, file |-> file]
    /\ UNCHANGED <<file, webhook2, file0, tvars, svars, hvars>>

NextLive == NextSteps \/ Interrupt

\* started with a state file, readable or with a last_id that is no number
InitLive == Init /\ file \in (LiveFiles \ {FileMissing}) /\ ~webhook2

\* sleeps end and requests return (timeout=15, timeout=20): a step of the
\* program that can be taken is taken; an interrupt may never come
SpecLive == InitLive /\ [][NextLive]_vars /\ WF_vars(NextSteps)

\* C11: a tick that has polled reaches the sleep whatever was raised in it
\* and a sleeping loop polls again, both unless the process is interrupted:
\* the loop is left on an interrupt only and polls again and again.
C11_LoopSurvives ==
    /\ (pc = "poll") ~> (pc = "sleep" \/ pc = "stopped")
    /\ (pc = "sleep") ~> (pc = "poll" \/ pc = "stopped")

\* the loop polls again after a tick in which save_state raised: memory
\* holds a last_id the file does not hold
C11_Witness ==
    /\ pc = "poll"
    /\ last_id.some /\ FileLastId(file) # last_id

\* ------------------------------------------------------------------------
\* termination of the process and the next start
\* ------------------------------------------------------------------------
\* the process is terminated from outside, at any point of the loop; what
\* it held in memory is gone, the file stays as it is
Kill ==
    /\ pc \in LoopPcs
    /\ pc' = "killed"
    /\ state' = DefaultState
    /\ last_id' = NoneId
    /\ UNCHANGED <<file, webhook2, file0, tickvars, pre, tvars, svars, hvars>>

\* lines 171-172 of the next start of the program
Restart ==
    /\ pc = "killed"
    /\ state' = load_state(file)
    /\ IF load_state(file).k = "other"
       THEN pc' = "crashed" /\ UNCHANGED last_id
       ELSE pc' = "restarted" /\ last_id' = StateGet(load_state(file))
    /\ UNCHANGED <<file, webhook2, file0, tickvars, pre, tvars, svars, hvars>>

NextKill == NextSteps \/ Kill \/ Restart

InitKill == Init /\ file \in LiveFiles /\ ~webhook2

SpecKill == InitKill /\ [][NextKill]_vars

\* the last_id the interrupted tick was about to persist, if it had one
TickLastId == IF new_msgs # <<>> THEN {NextLastId(new_msgs)} ELSE {}

\* C12: after a termination at any point of a tick, the next start loads
\* either the last_id the file held when the interrupted tick began or the
\* last_id of the interrupted tick, and not an empty state when the file
\* held a last_id.
C12_DurableUnderTermination ==
    pc = "restarted" =>
        /\ last_id \in {FileLastId(pre.file)} \cup TickLastId
        /\ FileLastId(pre.file).some => last_id.some

====
